---- MODULE Spec2Model ----
(***************************************************************************)
(* Selection-mode coordinator of the OptimizedMySqlHome page, as the patch *)
(* scripts leave it: compare mode / tour mode, the two selection lists,    *)
(* the two modals, the window registry read by other widgets, and the      *)
(* tour-request submission.                                                *)
(*                                                                         *)
(* React state is modelled in two layers.  The state variables hold the    *)
(* stored value of each useState cell, i.e. the value every queued update  *)
(* has been applied to.  `closure` holds the values the callbacks of the   *)
(* last render captured.  A functional update  setX(prev => ...)  reads    *)
(* the stored value; a callback body that mentions a state variable reads  *)
(* `closure`.  render copies the stored values into `closure` and runs the *)
(* window-globals effect.  unmount runs the effect's cleanup; the buttons  *)
(* of the UnifiedSearch widget call the page through the window keys.      *)
(*                                                                         *)
(* A daycare is represented by its operation_id.                           *)
(***************************************************************************)
EXTENDS Integers, Sequences, FiniteSets, TLC

\* ---- bounds --------------------------------------------------------------
\* daycares on the page in Spec
NumItems == 2
\* daycares on the page in SpecCap (one more than the tour capacity)
NumCapItems == 6
\* handler calls between two renders
MaxBatch == 2

\* notification elements created in SpecNotify
MaxNotes == 2

\* ---- program constants ---------------------------------------------------
MaxTourSelection == 5

NoAlert == "none"
AlertMaxAdd == "Maximum 5 daycares can be selected for tours"
AlertMaxSelect == "Maximum 5 daycares for tours"
AlertSelectOne == "Please select at least one daycare to schedule a tour"
AlertSelectOneCompare == "select at least one item"
AlertSuccess == "Success! Tour request submitted"
AlertFailure == "Failed to submit tour request"

NoDaycare == 0

VARIABLES
    catalog,              \* operation_ids of the daycares listed on the page
    compareMode,          \* useState(false)
    daycareComparison,    \* useState([])
    showComparisonModal,  \* useState(false)
    tourMode,             \* useState(false)
    tourSelection,        \* useState([])
    showTourModal,        \* useState(false)
    selectedDaycare,      \* detail view: setSelectedDaycare
    showDaycareDetails,   \* detail view: setShowDaycareDetails
    closure,              \* values captured by the callbacks of the last render
    window,               \* window.* keys read by the other widgets
    batch,                \* handler calls since the last render
    inflight,             \* a fetch('/api/tour-requests') awaits its response
    request,              \* body posted by the last step: <<>> or <<payload>>
    alertShown,           \* alert() raised by the last step
    mounted,              \* the page component is mounted
    orphaned,             \* a fetch of the unmounted component awaits its response
    fault,                \* a handler ended in an uncaught TypeError
    notifications,        \* notification elements in document.body, oldest first
    created,              \* notification elements created so far
    content,              \* restore_tour_mode.py: text blocks of the page source
    pc,                   \* restore_tour_mode.py: steps done so far
    original              \* restore_tour_mode.py: content when the run started

coordVars == <<compareMode, daycareComparison, showComparisonModal,
               tourMode, tourSelection, showTourModal>>
detailVars == <<selectedDaycare, showDaycareDetails>>
NoRequest == <<>>
lifeVars == <<mounted, orphaned, fault>>
noteVars == <<notifications, created>>
scriptVars == <<content, pc, original>>

vars == <<catalog, coordVars, detailVars, closure, window, batch,
          inflight, request, alertShown, lifeVars, noteVars, scriptVars>>

\* ---- array helpers -------------------------------------------------------
\* prev.some(d => d.operation_id === daycare.operation_id)
some(list, daycare) == \E i \in 1..Len(list) : list[i] = daycare

\* prev.filter(d => d.operation_id !== daycare.operation_id)
filter(list, daycare) == SelectSeq(list, LAMBDA d : d # daycare)

NoDup(list) == \A i, j \in 1..Len(list) : i # j => list[i] # list[j]

\* ---- values captured at render, values published by the effect ------------
Captured ==
    [compareMode |-> compareMode, tourMode |-> tourMode,
     tourSelection |-> tourSelection,
     comparisonLength |-> Len(daycareComparison),
     showTourModal |-> showTourModal]

\* the eight keys the effect writes
RegistryKeys ==
    {"daycarealertCompareMode", "daycareComparisonCount", "toggleCompareMode",
     "openComparisonModal", "daycarealertTourMode", "tourSelectionCount",
     "toggleTourMode", "openTourModal"}

\* the four keys the cleanup cleared before the tour keys were added to it
CompareKeys ==
    {"daycarealertCompareMode", "daycareComparisonCount", "toggleCompareMode",
     "openComparisonModal"}

\* A function key holds TRUE when it holds a callback: the callback of the
\* render whose effect wrote it, whose captured values are `closure`.
\* `undefined` is the set of keys whose value is undefined.
Published ==
    [daycarealertCompareMode |-> compareMode,
     daycareComparisonCount |-> Len(daycareComparison),
     toggleCompareMode |-> TRUE,
     openComparisonModal |-> TRUE,
     daycarealertTourMode |-> tourMode,
     tourSelectionCount |-> Len(tourSelection),
     toggleTourMode |-> TRUE,
     openTourModal |-> TRUE,
     undefined |-> {}]

\* window after the effect's cleanup assigned undefined to the given keys
Cleared(keys) ==
    [daycarealertCompareMode |->
         IF "daycarealertCompareMode" \in keys
            THEN FALSE ELSE window.daycarealertCompareMode,
     daycareComparisonCount |->
         IF "daycareComparisonCount" \in keys
            THEN 0 ELSE window.daycareComparisonCount,
     toggleCompareMode |->
         IF "toggleCompareMode" \in keys
            THEN FALSE ELSE window.toggleCompareMode,
     openComparisonModal |->
         IF "openComparisonModal" \in keys
            THEN FALSE ELSE window.openComparisonModal,
     daycarealertTourMode |->
         IF "daycarealertTourMode" \in keys
            THEN FALSE ELSE window.daycarealertTourMode,
     tourSelectionCount |->
         IF "tourSelectionCount" \in keys
            THEN 0 ELSE window.tourSelectionCount,
     toggleTourMode |->
         IF "toggleTourMode" \in keys THEN FALSE ELSE window.toggleTourMode,
     openTourModal |->
         IF "openTourModal" \in keys THEN FALSE ELSE window.openTourModal,
     undefined |-> window.undefined \cup keys]

\* if (window.key): the key holds a callback
present(key) == key \notin window.undefined /\ window[key]

Init ==
    /\ catalog = 1..NumItems
    /\ compareMode = FALSE
    /\ daycareComparison = <<>>
    /\ showComparisonModal = FALSE
    /\ tourMode = FALSE
    /\ tourSelection = <<>>
    /\ showTourModal = FALSE
    /\ selectedDaycare = NoDaycare
    /\ showDaycareDetails = FALSE
    /\ closure = Captured
    /\ window = Published
    /\ batch = 0
    /\ inflight = FALSE
    /\ request = NoRequest
    /\ alertShown = NoAlert
    /\ mounted = TRUE
    /\ orphaned = FALSE
    /\ fault = FALSE
    /\ notifications = <<>>
    /\ created = 0
    /\ content = {}
    /\ pc = 0
    /\ original = {}

\* ---- render and the window-globals effect --------------------------------
render ==
    /\ mounted
    /\ batch > 0
    /\ closure' = Captured
    /\ window' = Published
    /\ batch' = 0
    /\ alertShown' = NoAlert
    /\ request' = NoRequest
    /\ UNCHANGED <<noteVars, scriptVars, lifeVars>>
    /\ UNCHANGED <<catalog, coordVars, detailVars, inflight>>

\* ---- mode toggles --------------------------------------------------------
\* toggleTourMode before fix_tour_toggle_logic: the branch reads the captured
\* tourMode
toggleTourMode_captured ==
    /\ mounted
    /\ batch < MaxBatch
    /\ batch' = batch + 1
    /\ tourMode' = ~tourMode
    /\ IF closure.tourMode
          THEN /\ tourSelection' = <<>>
               /\ UNCHANGED <<compareMode, daycareComparison>>
          ELSE /\ compareMode' = FALSE
               /\ daycareComparison' = <<>>
               /\ UNCHANGED tourSelection
    /\ alertShown' = NoAlert
    /\ request' = NoRequest
    /\ UNCHANGED <<noteVars, scriptVars, lifeVars>>
    /\ UNCHANGED <<catalog, showComparisonModal, showTourModal, detailVars,
                   closure, window, inflight>>

toggleTourMode ==
    /\ mounted
    /\ batch < MaxBatch
    /\ batch' = batch + 1
    /\ LET newValue == ~tourMode IN
       /\ window' = [window EXCEPT !.daycarealertTourMode = newValue]
       /\ IF ~newValue
             THEN /\ tourSelection' = <<>>
                  /\ UNCHANGED <<compareMode, daycareComparison>>
             ELSE /\ compareMode' = FALSE
                  /\ daycareComparison' = <<>>
                  /\ UNCHANGED tourSelection
       /\ tourMode' = newValue
    /\ alertShown' = NoAlert
    /\ request' = NoRequest
    /\ UNCHANGED <<noteVars, scriptVars, lifeVars>>
    /\ UNCHANGED <<catalog, showComparisonModal, showTourModal, detailVars,
                   closure, inflight>>

toggleCompareMode ==
    /\ mounted
    /\ batch < MaxBatch
    /\ batch' = batch + 1
    /\ LET newValue == ~compareMode IN
       /\ window' = [window EXCEPT
                       !.daycarealertCompareMode = newValue,
                       !.daycareComparisonCount =
                           IF newValue THEN closure.comparisonLength ELSE 0]
       /\ IF ~newValue
             THEN /\ daycareComparison' = <<>>
                  /\ UNCHANGED <<tourMode, tourSelection>>
             ELSE /\ tourMode' = FALSE
                  /\ tourSelection' = <<>>
                  /\ UNCHANGED daycareComparison
       /\ compareMode' = newValue
    /\ alertShown' = NoAlert
    /\ request' = NoRequest
    /\ UNCHANGED <<noteVars, scriptVars, lifeVars>>
    /\ UNCHANGED <<catalog, showComparisonModal, showTourModal, detailVars,
                   closure, inflight>>

\* ---- tour selection ------------------------------------------------------
\* addToTourSelection without the capacity check
addToTourSelection_nocap(prev, daycare) ==
    IF some(prev, daycare) THEN prev ELSE Append(prev, daycare)

\* addToTourSelection without the duplicate check
addToTourSelection_nodedup(prev, daycare) ==
    IF Len(prev) >= MaxTourSelection THEN prev ELSE Append(prev, daycare)

\* addToTourSelection that makes room by dropping the oldest entry
addToTourSelection_evict(prev, daycare) ==
    IF some(prev, daycare) THEN prev
    ELSE IF Len(prev) >= MaxTourSelection THEN Append(Tail(prev), daycare)
    ELSE Append(prev, daycare)

\* addToTourSelection of fix_tour_mode: the new list is built from the
\* captured tourSelection
addToTourSelection_captured(prev, daycare) ==
    IF some(closure.tourSelection, daycare) THEN prev
    ELSE Append(closure.tourSelection, daycare)

\* addToTourSelection putting the new daycare in front
addToTourSelection_prepend(prev, daycare) ==
    IF some(prev, daycare) THEN prev
    ELSE IF Len(prev) >= MaxTourSelection THEN prev
    ELSE <<daycare>> \o prev

\* the updater passed to setTourSelection by addToTourSelection
addToTourSelection(prev, daycare) ==
    IF some(prev, daycare) THEN prev
    ELSE IF Len(prev) >= MaxTourSelection THEN prev
    ELSE Append(prev, daycare)

\* the alert raised inside that updater
addToTourSelectionAlert(prev, daycare) ==
    IF ~some(prev, daycare) /\ Len(prev) >= MaxTourSelection
       THEN AlertMaxAdd ELSE NoAlert

\* removeFromTourSelection written with findIndex and splice: a miss gives
\* index -1 and splice(-1, 1) takes out the last entry
removeFromTourSelection_splice(prev, daycare) ==
    IF some(prev, daycare) THEN SelectSeq(prev, LAMBDA d : d # daycare)
    ELSE IF prev = <<>> THEN prev
    ELSE SubSeq(prev, 1, Len(prev) - 1)

\* removeFromTourSelection with the filter test inverted
removeFromTourSelection_keep(prev, daycare) ==
    SelectSeq(prev, LAMBDA d : d = daycare)

\* the updater passed to setTourSelection by removeFromTourSelection
removeFromTourSelection(prev, daycare) == filter(prev, daycare)

\* isInTourSelection: tourSelection here is the captured list
isInTourSelection(captured, daycare) == some(captured, daycare)

\* tour branch of handleDaycareSelect: the stored list after the click, given
\* the list the callbacks captured
tourSelectionAfterClick(captured, prev, daycare) ==
    IF isInTourSelection(captured, daycare)
       THEN removeFromTourSelection(prev, daycare)
    ELSE IF Len(captured) < MaxTourSelection
       THEN addToTourSelection(prev, daycare)
    ELSE prev

\* alert raised by that branch
tourAlertAfterClick(captured, prev, daycare) ==
    IF isInTourSelection(captured, daycare) THEN NoAlert
    ELSE IF Len(captured) < MaxTourSelection
       THEN addToTourSelectionAlert(prev, daycare)
    ELSE AlertMaxSelect

\* ---- comparison list (SelectionSet of the specification, uncapped) --------
addToComparison(prev, daycare) ==
    IF some(prev, daycare) THEN prev ELSE Append(prev, daycare)

removeFromComparison(prev, daycare) == filter(prev, daycare)

isInComparison(daycare) == some(daycareComparison, daycare)

\* ---- click on a daycare of the list --------------------------------------
handleDaycareSelect(daycare, fromComparison) ==
    /\ mounted
    /\ batch < MaxBatch
    /\ batch' = batch + 1
    /\ IF closure.compareMode /\ ~fromComparison
          THEN /\ daycareComparison' =
                     IF isInComparison(daycare)
                        THEN removeFromComparison(daycareComparison, daycare)
                        ELSE addToComparison(daycareComparison, daycare)
               /\ alertShown' = NoAlert
               /\ UNCHANGED <<tourSelection, detailVars>>
          ELSE IF closure.tourMode
          THEN /\ tourSelection' =
                     tourSelectionAfterClick(closure.tourSelection,
                                             tourSelection, daycare)
               /\ alertShown' =
                     tourAlertAfterClick(closure.tourSelection,
                                         tourSelection, daycare)
               /\ UNCHANGED <<daycareComparison, detailVars>>
          ELSE /\ selectedDaycare' = daycare
               /\ showDaycareDetails' = TRUE
               /\ alertShown' = NoAlert
               /\ UNCHANGED <<daycareComparison, tourSelection>>
    /\ request' = NoRequest
    /\ UNCHANGED <<noteVars, scriptVars, lifeVars>>
    /\ UNCHANGED <<catalog, compareMode, showComparisonModal, tourMode,
                   showTourModal, closure, window, inflight>>

\* ---- modals --------------------------------------------------------------
openTourModal ==
    /\ mounted
    /\ batch < MaxBatch
    /\ batch' = batch + 1
    /\ IF Len(closure.tourSelection) > 0
          THEN /\ showTourModal' = TRUE
               /\ alertShown' = NoAlert
          ELSE /\ alertShown' = AlertSelectOne
               /\ UNCHANGED showTourModal
    /\ request' = NoRequest
    /\ UNCHANGED <<noteVars, scriptVars, lifeVars>>
    /\ UNCHANGED <<catalog, compareMode, daycareComparison,
                   showComparisonModal, tourMode, tourSelection, detailVars,
                   closure, window, inflight>>

\* closeTourModal that also empties the list
closeTourModal_clearing ==
    /\ mounted
    /\ batch < MaxBatch
    /\ batch' = batch + 1
    /\ showTourModal' = FALSE
    /\ tourSelection' = <<>>
    /\ alertShown' = NoAlert
    /\ request' = NoRequest
    /\ UNCHANGED <<noteVars, scriptVars, lifeVars>>
    /\ UNCHANGED <<catalog, compareMode, daycareComparison,
                   showComparisonModal, tourMode, detailVars,
                   closure, window, inflight>>

closeTourModal ==
    /\ mounted
    /\ batch < MaxBatch
    /\ batch' = batch + 1
    /\ showTourModal' = FALSE
    /\ alertShown' = NoAlert
    /\ request' = NoRequest
    /\ UNCHANGED <<noteVars, scriptVars, lifeVars>>
    /\ UNCHANGED <<catalog, compareMode, daycareComparison,
                   showComparisonModal, tourMode, tourSelection, detailVars,
                   closure, window, inflight>>

\* openModal(Compare) / closeModal(Compare) of the specification
openComparisonModal ==
    /\ mounted
    /\ batch < MaxBatch
    /\ batch' = batch + 1
    /\ IF Len(daycareComparison) > 0
          THEN /\ showComparisonModal' = TRUE
               /\ alertShown' = NoAlert
          ELSE /\ alertShown' = AlertSelectOneCompare
               /\ UNCHANGED showComparisonModal
    /\ request' = NoRequest
    /\ UNCHANGED <<noteVars, scriptVars, lifeVars>>
    /\ UNCHANGED <<catalog, compareMode, daycareComparison, tourMode,
                   tourSelection, showTourModal, detailVars, closure, window,
                   inflight>>

closeComparisonModal ==
    /\ mounted
    /\ batch < MaxBatch
    /\ batch' = batch + 1
    /\ showComparisonModal' = FALSE
    /\ alertShown' = NoAlert
    /\ request' = NoRequest
    /\ UNCHANGED <<noteVars, scriptVars, lifeVars>>
    /\ UNCHANGED <<catalog, compareMode, daycareComparison, tourMode,
                   tourSelection, showTourModal, detailVars, closure, window,
                   inflight>>

\* ---- tour request submission ---------------------------------------------
\* onSubmit up to  await fetch(...) : the modal is on screen, the payload is
\* built from the captured tourSelection
\* what the user entered in the modal's form: the ages of the children and
\* the days of the week, both arrays
FormData ==
    { [childrenAges  |-> [serialized |-> FALSE, value |-> <<3>>],
       availableDays |-> [serialized |-> FALSE, value |-> <<"Mon">>]],
      [childrenAges  |-> [serialized |-> FALSE, value |-> <<2, 4>>],
       availableDays |-> [serialized |-> FALSE,
                          value |-> <<"Tue", "Thu">>]] }

\* a single filled-in form, for the runs that do not look into the payload
FormOne == {formData \in FormData : Len(formData.childrenAges.value) = 1}

\* tourSelection.map(d => ({operation_id: d.operation_id, ...}))
map(list) == [i \in 1..Len(list) |-> [operation_id |-> list[i]]]

\* the body of the POST
payload(formData, list) ==
    [parentInfo |-> [childrenAges  |-> formData.childrenAges,
                     availableDays |-> formData.availableDays],
     selectedDaycares |-> map(list)]

onSubmit(formData) ==
    /\ mounted
    /\ closure.showTourModal
    /\ ~inflight
    /\ inflight' = TRUE
    /\ request' = <<payload(formData, closure.tourSelection)>>
    /\ alertShown' = NoAlert
    /\ UNCHANGED <<noteVars, scriptVars, lifeVars>>
    /\ UNCHANGED <<catalog, coordVars, detailVars, closure, window, batch>>

\* the response handler leaving tour mode on after a success
onSubmitResponse_keepsMode(ok, success, thrown) ==
    /\ inflight
    /\ batch < MaxBatch
    /\ inflight' = FALSE
    /\ request' = NoRequest
    /\ IF ~thrown /\ ok /\ success
          THEN /\ alertShown' = AlertSuccess
               /\ tourSelection' = <<>>
               /\ showTourModal' = FALSE
               /\ batch' = batch + 1
               /\ UNCHANGED tourMode
          ELSE /\ alertShown' = AlertFailure
               /\ UNCHANGED <<tourSelection, tourMode, showTourModal, batch>>
    /\ UNCHANGED <<noteVars, scriptVars, lifeVars>>
    /\ UNCHANGED <<catalog, compareMode, daycareComparison,
                   showComparisonModal, detailVars, closure, window>>

\* the response handler closing the modal whatever the outcome (the onSubmit
\* that fix_tour_payload replaces called closeTourModal unconditionally)
onSubmitResponse_closesAlways(ok, success, thrown) ==
    /\ inflight
    /\ batch < MaxBatch
    /\ inflight' = FALSE
    /\ request' = NoRequest
    /\ showTourModal' = FALSE
    /\ batch' = batch + 1
    /\ IF ~thrown /\ ok /\ success
          THEN /\ alertShown' = AlertSuccess
               /\ tourSelection' = <<>>
               /\ tourMode' = FALSE
          ELSE /\ alertShown' = AlertFailure
               /\ UNCHANGED <<tourSelection, tourMode>>
    /\ UNCHANGED <<noteVars, scriptVars, lifeVars>>
    /\ UNCHANGED <<catalog, compareMode, daycareComparison,
                   showComparisonModal, detailVars, closure, window>>

\* the response handler testing data.success only
onSubmitResponse_bodyOnly(ok, success, thrown) ==
    /\ inflight
    /\ batch < MaxBatch
    /\ inflight' = FALSE
    /\ request' = NoRequest
    /\ IF ~thrown /\ success
          THEN /\ alertShown' = AlertSuccess
               /\ tourSelection' = <<>>
               /\ tourMode' = FALSE
               /\ showTourModal' = FALSE
               /\ batch' = batch + 1
          ELSE /\ alertShown' = AlertFailure
               /\ UNCHANGED <<tourSelection, tourMode, showTourModal, batch>>
    /\ UNCHANGED <<noteVars, scriptVars, lifeVars>>
    /\ UNCHANGED <<catalog, compareMode, daycareComparison,
                   showComparisonModal, detailVars, closure, window>>

\* the response handler that posts the same request again after a failure
onSubmitResponse_retry(ok, success, thrown) ==
    /\ inflight
    /\ batch < MaxBatch
    /\ IF ~thrown /\ ok /\ success
          THEN /\ alertShown' = AlertSuccess
               /\ tourSelection' = <<>>
               /\ tourMode' = FALSE
               /\ showTourModal' = FALSE
               /\ batch' = batch + 1
               /\ inflight' = FALSE
               /\ request' = NoRequest
          ELSE /\ alertShown' = AlertFailure
               /\ \E formData \in FormData :
                     request' = <<payload(formData, closure.tourSelection)>>
               /\ UNCHANGED <<tourSelection, tourMode, showTourModal, batch,
                              inflight>>
    /\ UNCHANGED <<noteVars, scriptVars, lifeVars>>
    /\ UNCHANGED <<catalog, compareMode, daycareComparison,
                   showComparisonModal, detailVars, closure, window>>

\* the response handler that on success resets the whole page, the compare
\* mode included
onSubmitResponse_resetsAll(ok, success, thrown) ==
    /\ inflight
    /\ batch < MaxBatch
    /\ inflight' = FALSE
    /\ request' = NoRequest
    /\ IF ~thrown /\ ok /\ success
          THEN /\ alertShown' = AlertSuccess
               /\ tourSelection' = <<>>
               /\ tourMode' = FALSE
               /\ showTourModal' = FALSE
               /\ compareMode' = FALSE
               /\ daycareComparison' = <<>>
               /\ showComparisonModal' = FALSE
               /\ batch' = batch + 1
          ELSE /\ alertShown' = AlertFailure
               /\ UNCHANGED <<tourSelection, tourMode, showTourModal, batch,
                              compareMode, daycareComparison,
                              showComparisonModal>>
    /\ UNCHANGED <<noteVars, scriptVars, lifeVars>>
    /\ UNCHANGED <<catalog, detailVars, closure, window>>

\* onSubmit after the await: ok is response.ok, success is data.success
\* (a missing field is falsy), thrown is fetch or response.json() rejecting
onSubmitResponse(ok, success, thrown) ==
    /\ inflight
    /\ batch < MaxBatch
    /\ inflight' = FALSE
    /\ request' = NoRequest
    /\ IF ~thrown /\ ok /\ success
          THEN /\ alertShown' = AlertSuccess
               /\ tourSelection' = <<>>
               /\ tourMode' = FALSE
               /\ showTourModal' = FALSE
               /\ batch' = batch + 1
          ELSE /\ alertShown' = AlertFailure
               /\ UNCHANGED <<tourSelection, tourMode, showTourModal, batch>>
    /\ UNCHANGED <<noteVars, scriptVars, lifeVars>>
    /\ UNCHANGED <<catalog, compareMode, daycareComparison,
                   showComparisonModal, detailVars, closure, window>>

\* onSubmit after the await when the component was unmounted meanwhile: the
\* alert is raised, the three state setters act on a component that is gone
onSubmitResponseUnmounted(ok, success, thrown) ==
    /\ orphaned
    /\ orphaned' = FALSE
    /\ alertShown' = IF ~thrown /\ ok /\ success
                        THEN AlertSuccess ELSE AlertFailure
    /\ request' = NoRequest
    /\ UNCHANGED <<noteVars, scriptVars>>
    /\ UNCHANGED <<catalog, coordVars, detailVars, closure, window, batch,
                   inflight, mounted, fault>>

\* ---- unmount: the effect's cleanup runs, the component state is dropped ---
teardown(keys) ==
    /\ mounted
    /\ mounted' = FALSE
    /\ window' = Cleared(keys)
    /\ orphaned' = (orphaned \/ inflight)
    /\ inflight' = FALSE
    /\ compareMode' = FALSE
    /\ daycareComparison' = <<>>
    /\ showComparisonModal' = FALSE
    /\ tourMode' = FALSE
    /\ tourSelection' = <<>>
    /\ showTourModal' = FALSE
    /\ selectedDaycare' = NoDaycare
    /\ showDaycareDetails' = FALSE
    /\ closure' = [compareMode |-> FALSE, tourMode |-> FALSE,
                   tourSelection |-> <<>>, comparisonLength |-> 0,
                   showTourModal |-> FALSE]
    /\ batch' = 0
    /\ alertShown' = NoAlert
    /\ request' = NoRequest
    /\ UNCHANGED <<noteVars, scriptVars>>
    /\ UNCHANGED <<catalog, fault>>

\* unmount with the cleanup that cleared the compare keys only
unmount_compareKeys == teardown(CompareKeys)

unmount == teardown(RegistryKeys)

\* ---- buttons of the UnifiedSearch widget ----------------------------------
\* if (window.f) { window.f(); }  with window.f undefined: nothing is called
guardedSkip ==
    /\ alertShown' = NoAlert
    /\ request' = NoRequest
    /\ UNCHANGED <<noteVars, scriptVars>>
    /\ UNCHANGED <<catalog, coordVars, detailVars, closure, window, batch,
                   inflight, lifeVars>>

\* window.f()  with window.f undefined: TypeError
unguardedCall ==
    /\ fault' = TRUE
    /\ alertShown' = NoAlert
    /\ request' = NoRequest
    /\ UNCHANGED <<noteVars, scriptVars>>
    /\ UNCHANGED <<catalog, coordVars, detailVars, closure, window, batch,
                   inflight, mounted, orphaned>>

\* the select-tours button without the  if (window.toggleTourMode)  guard
selectToursClick_unguarded ==
    IF present("toggleTourMode") THEN toggleTourMode ELSE unguardedCall

selectToursClick ==
    IF present("toggleTourMode") THEN toggleTourMode ELSE guardedSkip

viewTourScheduleClick ==
    IF present("openTourModal") THEN openTourModal ELSE guardedSkip

compareToggleClick ==
    IF present("toggleCompareMode") THEN toggleCompareMode ELSE guardedSkip

viewComparisonClick ==
    IF present("openComparisonModal") THEN openComparisonModal ELSE guardedSkip

Next ==
    \/ render
    \/ toggleTourMode
    \/ toggleCompareMode
    \/ \E daycare \in catalog, fromComparison \in BOOLEAN :
          handleDaycareSelect(daycare, fromComparison)
    \/ openTourModal
    \/ closeTourModal
    \/ openComparisonModal
    \/ closeComparisonModal
    \/ \E formData \in FormOne : onSubmit(formData)
    \/ \E ok \in BOOLEAN, success \in BOOLEAN, thrown \in BOOLEAN :
          onSubmitResponse(ok, success, thrown)
    \/ \E ok \in BOOLEAN, success \in BOOLEAN, thrown \in BOOLEAN :
          onSubmitResponseUnmounted(ok, success, thrown)
    \/ unmount
    \/ selectToursClick
    \/ viewTourScheduleClick
    \/ compareToggleClick
    \/ viewComparisonClick

Spec == Init /\ [][Next]_vars

\* ---- the page with tour mode entered and six daycares listed --------------
InitCap ==
    /\ catalog = 1..NumCapItems
    /\ compareMode = FALSE
    /\ daycareComparison = <<>>
    /\ showComparisonModal = FALSE
    /\ tourMode = TRUE
    /\ tourSelection = <<>>
    /\ showTourModal = FALSE
    /\ selectedDaycare = NoDaycare
    /\ showDaycareDetails = FALSE
    /\ closure = Captured
    /\ window = Published
    /\ batch = 0
    /\ inflight = FALSE
    /\ request = NoRequest
    /\ alertShown = NoAlert
    /\ mounted = TRUE
    /\ orphaned = FALSE
    /\ fault = FALSE
    /\ notifications = <<>>
    /\ created = 0
    /\ content = {}
    /\ pc = 0
    /\ original = {}

NextCap ==
    \/ render
    \/ \E daycare \in catalog, fromComparison \in BOOLEAN :
          handleDaycareSelect(daycare, fromComparison)
    \/ openTourModal
    \/ closeTourModal

SpecCap == InitCap /\ [][NextCap]_vars

\* ---- the tour request modal ----------------------------------------------
\* onRemove of TourRequestModal: the modal lists the captured tourSelection
\* and hands the clicked daycare to removeFromTourSelection
onRemove(daycare) ==
    /\ mounted
    /\ closure.showTourModal
    /\ some(closure.tourSelection, daycare)
    /\ batch < MaxBatch
    /\ batch' = batch + 1
    /\ tourSelection' = removeFromTourSelection(tourSelection, daycare)
    /\ alertShown' = NoAlert
    /\ request' = NoRequest
    /\ UNCHANGED <<noteVars, scriptVars, lifeVars>>
    /\ UNCHANGED <<catalog, compareMode, daycareComparison,
                   showComparisonModal, tourMode, showTourModal, detailVars,
                   closure, window, inflight>>

NextTour ==
    \/ render
    \/ toggleTourMode
    \/ \E daycare \in catalog, fromComparison \in BOOLEAN :
          handleDaycareSelect(daycare, fromComparison)
    \/ openTourModal
    \/ closeTourModal
    \/ \E daycare \in catalog : onRemove(daycare)

SpecTour == Init /\ [][NextTour]_vars

\* ---- filling in and sending the tour request -----------------------------
NextSubmit ==
    \/ render
    \/ toggleTourMode
    \/ \E daycare \in catalog, fromComparison \in BOOLEAN :
          handleDaycareSelect(daycare, fromComparison)
    \/ openTourModal
    \/ \E daycare \in catalog : onRemove(daycare)
    \/ \E formData \in FormData : onSubmit(formData)
    \/ \E ok \in BOOLEAN, success \in BOOLEAN, thrown \in BOOLEAN :
          onSubmitResponse(ok, success, thrown)

SpecSubmit == Init /\ [][NextSubmit]_vars

\* ---- notifications --------------------------------------------------------
\* document.createElement('div'), textContent, document.body.appendChild and
\* setTimeout(() => notification.remove(), 3000): the element joins the body
\* and its timer is armed
notify(kind, daycare) ==
    /\ notifications' =
          Append(notifications,
                 [id |-> created + 1, kind |-> kind, daycare |-> daycare])
    /\ created' = created + 1

\* showNotification(message, type): notify of the specification
showNotification(kind, daycare) == notify(kind, daycare)

\* a timer that is cancelled when the component goes away
timerFires_mounted ==
    /\ mounted
    /\ notifications # <<>>
    /\ notifications' = Tail(notifications)
    /\ alertShown' = NoAlert
    /\ request' = NoRequest
    /\ UNCHANGED <<created, scriptVars, lifeVars>>
    /\ UNCHANGED <<catalog, coordVars, detailVars, closure, window, batch,
                   inflight>>

\* a 3000 ms timer fires and removes its element; the timers all run 3000 ms,
\* so the oldest element goes first.  The timer belongs to the document, not
\* to the component.
timerFires ==
    /\ notifications # <<>>
    /\ notifications' = Tail(notifications)
    /\ alertShown' = NoAlert
    /\ request' = NoRequest
    /\ UNCHANGED <<created, scriptVars, lifeVars>>
    /\ UNCHANGED <<catalog, coordVars, detailVars, closure, window, batch,
                   inflight>>

\* handleDaycareSelect as fix_tour_handler (and step 5 of restore_tour_mode)
\* writes it: the tour branch comes first and acknowledges with
\* showNotification; the rest of the handler is the one above
handleDaycareSelect_fixTourHandler(daycare, fromComparison) ==
    /\ mounted
    /\ batch < MaxBatch
    /\ batch' = batch + 1
    /\ IF closure.tourMode /\ ~fromComparison
          THEN /\ created < MaxNotes
               /\ IF isInTourSelection(closure.tourSelection, daycare)
                     THEN /\ tourSelection' =
                               removeFromTourSelection(tourSelection, daycare)
                          /\ alertShown' = NoAlert
                          /\ showNotification("Removed", daycare)
                     ELSE /\ tourSelection' =
                               addToTourSelection(tourSelection, daycare)
                          /\ alertShown' =
                               addToTourSelectionAlert(tourSelection, daycare)
                          /\ showNotification("Added", daycare)
               /\ UNCHANGED <<daycareComparison, detailVars>>
          ELSE IF closure.compareMode /\ ~fromComparison
          THEN /\ daycareComparison' =
                     IF isInComparison(daycare)
                        THEN removeFromComparison(daycareComparison, daycare)
                        ELSE addToComparison(daycareComparison, daycare)
               /\ alertShown' = NoAlert
               /\ UNCHANGED <<tourSelection, detailVars, noteVars>>
          ELSE /\ selectedDaycare' = daycare
               /\ showDaycareDetails' = TRUE
               /\ alertShown' = NoAlert
               /\ UNCHANGED <<daycareComparison, tourSelection, noteVars>>
    /\ request' = NoRequest
    /\ UNCHANGED <<scriptVars, lifeVars>>
    /\ UNCHANGED <<catalog, compareMode, showComparisonModal, tourMode,
                   showTourModal, closure, window, inflight>>

\* ---- the page in tour mode with the list full and six daycares listed ------
InitNotify ==
    /\ catalog = 1..NumCapItems
    /\ compareMode = FALSE
    /\ daycareComparison = <<>>
    /\ showComparisonModal = FALSE
    /\ tourMode = TRUE
    /\ tourSelection = [i \in 1..MaxTourSelection |-> i]
    /\ showTourModal = FALSE
    /\ selectedDaycare = NoDaycare
    /\ showDaycareDetails = FALSE
    /\ closure = Captured
    /\ window = Published
    /\ batch = 0
    /\ inflight = FALSE
    /\ request = NoRequest
    /\ alertShown = NoAlert
    /\ mounted = TRUE
    /\ orphaned = FALSE
    /\ fault = FALSE
    /\ notifications = <<>>
    /\ created = 0
    /\ content = {}
    /\ pc = 0
    /\ original = {}

NextNotify ==
    \/ render
    \/ toggleTourMode
    \/ \E daycare \in catalog, fromComparison \in BOOLEAN :
          handleDaycareSelect_fixTourHandler(daycare, fromComparison)
    \/ timerFires
    \/ unmount

SpecNotify == InitNotify /\ [][NextNotify]_vars

\* the same operations on the freshly mounted page; the browser runs every
\* armed timer
SpecNotifyLive == Init /\ [][NextNotify]_vars /\ WF_vars(timerFires)

\* ==== restore_tour_mode.py: the script that patches the page source =======
\* The page source is the set of the text pieces it holds: the pieces the
\* script looks for and the pieces it inserts.
ImportAnchor == "import DaycareComparison from '../components/DaycareComparison';"
StateAnchor == "const [showComparisonModal, setShowComparisonModal] = useState(false);"
FunctionsAnchor == "}, [daycareComparison]);"
EffectAnchor == "// Handle daycare selection"
old_select == "handleDaycareSelect ... { if (fromComparison || compareMode) {"
UiAnchor == "</> ); }; export default OptimizedMySqlHome;"
import_line == "import TourRequestModal from '../components/TourScheduling/TourRequestModal';"
state_insert == "// Tour mode state ..."
tour_functions == "// Tour mode functions ..."
useeffect_code == "// Initialize window global variables ..."
new_select == "handleDaycareSelect ... { if (tourMode && !fromComparison) { ... }"
tour_ui == "{/* Tour Mode Indicator */} ... <TourRequestModal ... />"

Anchors ==
    {ImportAnchor, StateAnchor, FunctionsAnchor, EffectAnchor, old_select,
     UiAnchor}
Inserts ==
    {import_line, state_insert, tour_functions, useeffect_code, new_select,
     tour_ui}

\* the strings the script's tests search for that occur in a piece
Text(piece) ==
    CASE piece = import_line -> {"import TourRequestModal"}
      [] piece = state_insert -> {"tourMode"}
      [] piece = tour_functions ->
            {"tourMode", "toggleTourMode", "if (tourMode)"}
      [] piece = useeffect_code ->
            {"tourMode", "toggleTourMode", "window.daycarealertTourMode"}
      [] piece = new_select -> {"tourMode"}
      [] piece = tour_ui -> {"tourMode", "toggleTourMode", "<TourRequestModal"}
      [] OTHER -> {piece}

\* needle in content
in(needle, page) == \E piece \in page : needle \in Text(piece)

\* content.replace(anchor, anchor + insert)  /  (insert + anchor)
replace(page, anchor, insert) ==
    IF anchor \in page THEN page \cup {insert} ELSE page

\* content.replace(old_select, new_select)
replaceSelect(page) ==
    IF old_select \in page
       THEN (page \ {old_select}) \cup {new_select} ELSE page

pageVars ==
    <<catalog, coordVars, detailVars, closure, window, batch, inflight,
      request, alertShown, lifeVars, noteVars>>

LastStep == 6

\* pc counts the steps done; two runs of the script follow each other
stepOf(n) == pc < 2 * LastStep /\ pc % LastStep = n - 1

\* 1. f.read(), then the import
addImport ==
    /\ stepOf(1)
    /\ original' = content
    /\ content' = IF ~in("import TourRequestModal", content)
                     THEN replace(content, ImportAnchor, import_line)
                     ELSE content
    /\ pc' = pc + 1
    /\ UNCHANGED pageVars

\* 2. the state variables
addState ==
    /\ stepOf(2)
    /\ content' = IF ~in("tourMode", content)
                     THEN replace(content, StateAnchor, state_insert)
                     ELSE content
    /\ pc' = pc + 1
    /\ UNCHANGED <<original, pageVars>>

\* 3. the tour functions
addTourFunctions ==
    /\ stepOf(3)
    /\ content' = IF ~in("toggleTourMode", content)
                     THEN replace(content, FunctionsAnchor, tour_functions)
                     ELSE content
    /\ pc' = pc + 1
    /\ UNCHANGED <<original, pageVars>>

\* 4. the useEffect for the window globals
addUseEffect ==
    /\ stepOf(4)
    /\ content' = IF ~in("window.daycarealertTourMode", content)
                     THEN replace(content, EffectAnchor, useeffect_code)
                     ELSE content
    /\ pc' = pc + 1
    /\ UNCHANGED <<original, pageVars>>

\* 5. the tour branch of handleDaycareSelect
updateHandleDaycareSelect ==
    /\ stepOf(5)
    /\ content' = IF ~in("if (tourMode)", content)
                     THEN replaceSelect(content)
                     ELSE content
    /\ pc' = pc + 1
    /\ UNCHANGED <<original, pageVars>>

\* 6. the tour modal and indicator, then f.write()
addTourUi ==
    /\ stepOf(6)
    /\ content' = IF ~in("<TourRequestModal", content)
                     THEN replace(content, UiAnchor, tour_ui)
                     ELSE content
    /\ pc' = pc + 1
    /\ UNCHANGED <<original, pageVars>>

\* any page source: each piece is there or not; the handler has one header,
\* followed by the compare test or by the tour branch
InitRestore ==
    /\ catalog = 1..NumItems
    /\ compareMode = FALSE
    /\ daycareComparison = <<>>
    /\ showComparisonModal = FALSE
    /\ tourMode = FALSE
    /\ tourSelection = <<>>
    /\ showTourModal = FALSE
    /\ selectedDaycare = NoDaycare
    /\ showDaycareDetails = FALSE
    /\ closure = Captured
    /\ window = Published
    /\ batch = 0
    /\ inflight = FALSE
    /\ request = NoRequest
    /\ alertShown = NoAlert
    /\ mounted = TRUE
    /\ orphaned = FALSE
    /\ fault = FALSE
    /\ notifications = <<>>
    /\ created = 0
    /\ content \in SUBSET (Anchors \cup Inserts)
    /\ ~(old_select \in content /\ new_select \in content)
    /\ pc = 0
    /\ original = content

NextRestore ==
    \/ addImport
    \/ addState
    \/ addTourFunctions
    \/ addUseEffect
    \/ updateHandleDaycareSelect
    \/ addTourUi

SpecRestore == InitRestore /\ [][NextRestore]_vars

\* ==== properties ==========================================================
Range(list) == {list[i] : i \in 1..Len(list)}

\* the callbacks of the last render captured the tour state now stored
FreshTour ==
    /\ closure.tourMode = tourMode
    /\ closure.compareMode = compareMode
    /\ closure.tourSelection = tourSelection

\* C1: compareMode and tourMode are never both true, whatever sequence of
\* toggleCompareMode / toggleTourMode calls (and other operations) ran.
C1_MutualExclusion == ~(compareMode /\ tourMode)

\* tour mode was switched on by a toggle while compare mode was the rendered
\* mode
C1_Witness == tourMode /\ ~compareMode /\ closure.compareMode /\ batch > 0

\* C2 (as claimed): the two lists are never both non-empty, and a list is
\* non-empty only while its own mode is the active one.
C2_SetsFollowMode ==
    /\ ~(Len(daycareComparison) > 0 /\ Len(tourSelection) > 0)
    /\ (Len(tourSelection) > 0 => tourMode)
    /\ (Len(daycareComparison) > 0 => compareMode)

\* C3: tourSelection never holds more than 5 daycares, also when clicks are
\* handled with an out-of-date captured tourSelection.length.
C3_Capacity == Len(tourSelection) <= MaxTourSelection

\* the list is full and the last click, handled with a captured length below
\* 5, was turned down inside the updater
C3_Witness ==
    /\ Len(tourSelection) = MaxTourSelection
    /\ Len(closure.tourSelection) < MaxTourSelection
    /\ alertShown = AlertMaxAdd

\* C4: with 5 daycares selected and tour mode active, a click on a sixth
\* daycare (selected neither in the stored nor in the rendered list) leaves
\* the list, the mode flags and the modal flags as they are and raises a
\* "Maximum 5" alert.
C4_SixthRejected ==
    [][\A daycare \in catalog, fromComparison \in BOOLEAN :
         ( /\ Len(tourSelection) = MaxTourSelection
           /\ tourMode /\ closure.tourMode
           /\ ~some(tourSelection, daycare)
           /\ ~some(closure.tourSelection, daycare)
           /\ handleDaycareSelect(daycare, fromComparison) )
         => /\ tourSelection' = tourSelection
            /\ tourMode' = tourMode /\ compareMode' = compareMode
            /\ showTourModal' = showTourModal
            /\ showComparisonModal' = showComparisonModal
            /\ alertShown' \in {AlertMaxSelect, AlertMaxAdd}]_vars

\* a click was turned down by the handler while the modal was open and the
\* rendered list was the full stored one
C4_Witness ==
    /\ Len(tourSelection) = MaxTourSelection
    /\ closure.tourSelection = tourSelection
    /\ showTourModal
    /\ alertShown = AlertMaxSelect

\* C5: no selection list holds the same operation_id twice, also after two
\* clicks on the same daycare handled before a re-render.
C5_NoDuplicates == NoDup(tourSelection) /\ NoDup(daycareComparison)

\* two handler calls since the last render, which showed an empty tour list,
\* left exactly one daycare selected
C5_Witness ==
    /\ batch = 2
    /\ closure.tourMode /\ tourMode
    /\ closure.tourSelection = <<>>
    /\ Len(tourSelection) = 1
    /\ ~showTourModal /\ ~showComparisonModal
    /\ alertShown = NoAlert

\* the tour list after two clicks on the same daycare, the component having
\* re-rendered before each
TwoClicks(list, daycare) ==
    LET once == tourSelectionAfterClick(list, list, daycare)
    IN  tourSelectionAfterClick(once, once, daycare)

C7_ActivationClosesOther ==
    [][ /\ (toggleCompareMode /\ ~compareMode /\ tourMode)
           => /\ ~tourMode' /\ tourSelection' = <<>> /\ ~showTourModal'
        /\ (toggleTourMode /\ ~tourMode /\ compareMode)
           => /\ ~compareMode' /\ daycareComparison' = <<>>
              /\ ~showComparisonModal' ]_vars

\* C8 (as claimed): toggling the active mode switches it off, empties its
\* list and clears its modal flag.
C8_Deactivation ==
    [][ /\ (toggleTourMode /\ tourMode)
           => /\ ~tourMode' /\ tourSelection' = <<>> /\ ~showTourModal'
        /\ (toggleCompareMode /\ compareMode)
           => /\ ~compareMode' /\ daycareComparison' = <<>>
              /\ ~showComparisonModal' ]_vars

\* C9 (as claimed): whatever the callbacks captured, a toggle call flips the
\* stored flag and everything it writes is what the stored state before the
\* call determines, as in a call made right after a re-render.
C9_NoStaleRead ==
    [][ /\ toggleTourMode =>
             /\ tourMode' = ~tourMode
             /\ window'.daycarealertTourMode = ~tourMode
             /\ tourSelection' = IF tourMode THEN <<>> ELSE tourSelection
             /\ compareMode' = (tourMode /\ compareMode)
             /\ daycareComparison' =
                   IF tourMode THEN daycareComparison ELSE <<>>
        /\ toggleCompareMode =>
             /\ compareMode' = ~compareMode
             /\ window'.daycarealertCompareMode = ~compareMode
             /\ window'.daycareComparisonCount =
                   IF compareMode THEN 0 ELSE Len(daycareComparison)
             /\ daycareComparison' =
                   IF compareMode THEN <<>> ELSE daycareComparison
             /\ tourMode' = (compareMode /\ tourMode)
             /\ tourSelection' = IF compareMode THEN tourSelection ELSE <<>>
      ]_vars

\* C10 (as claimed): openTourModal with an empty stored tour list does not
\* open the modal and raises the "select at least one" alert.
C10_EmptyNeverOpens ==
    [][ (openTourModal /\ Len(tourSelection) = 0)
        => /\ (~showTourModal => ~showTourModal')
           /\ alertShown' = AlertSelectOne ]_vars

\* the values a submit response can carry
Responses == BOOLEAN \X BOOLEAN \X BOOLEAN

\* response.ok && data.success, nothing thrown
IsSuccess(ok, success, thrown) == ~thrown /\ ok /\ success

\* C11: closing a modal clears that modal's flag from any state and leaves
\* both mode flags and both selection lists as they are.
C11_CloseModalFrame ==
    [][ /\ closeTourModal =>
             /\ ~showTourModal'
             /\ UNCHANGED <<tourMode, compareMode, tourSelection,
                            daycareComparison, showComparisonModal>>
        /\ closeComparisonModal =>
             /\ ~showComparisonModal'
             /\ UNCHANGED <<tourMode, compareMode, tourSelection,
                            daycareComparison, showTourModal>> ]_vars

\* the tour modal, open at the last render, was closed and the selection is
\* still there
C11_Witness ==
    /\ closure.showTourModal /\ ~showTourModal
    /\ tourMode /\ Len(tourSelection) > 0
    /\ alertShown = NoAlert

\* C12: when a response with response.ok and data.success has been handled,
\* the tour list is empty, tour mode is off and the tour modal is closed.
C12_SubmitSuccess ==
    [][ \A r \in Responses :
          ( /\ IsSuccess(r[1], r[2], r[3])
            /\ \/ onSubmitResponse(r[1], r[2], r[3])
               \/ onSubmitResponseUnmounted(r[1], r[2], r[3]) )
          => /\ tourSelection' = <<>>
             /\ ~tourMode'
             /\ ~showTourModal' ]_vars

\* a success was handled for a request posted from an open modal with a
\* non-empty list in tour mode
C12_Witness ==
    /\ alertShown = AlertSuccess
    /\ closure.showTourModal /\ closure.tourMode
    /\ Len(closure.tourSelection) > 0
    /\ tourSelection = <<>> /\ ~tourMode /\ ~showTourModal

\* C13: when a submit ends in failure (data.success false or missing,
\* response.ok false, or an exception) the tour list, both mode flags and
\* both modal flags are what they were when the response arrived, and the
\* failure alert is raised.
C13_SubmitFailure ==
    [][ \A r \in Responses :
          ( /\ ~IsSuccess(r[1], r[2], r[3])
            /\ \/ onSubmitResponse(r[1], r[2], r[3])
               \/ onSubmitResponseUnmounted(r[1], r[2], r[3]) )
          => /\ UNCHANGED <<tourSelection, daycareComparison, tourMode,
                            compareMode, showTourModal, showComparisonModal>>
             /\ alertShown' = AlertFailure ]_vars

\* a failure was reported with the modal open and the selection kept
C13_Witness ==
    /\ alertShown = AlertFailure
    /\ showTourModal /\ tourMode
    /\ Len(tourSelection) > 0
    /\ closure.tourSelection = tourSelection

\* C14: a response is handled as a success (success alert) exactly when
\* nothing was thrown, response.ok holds and data.success holds; every other
\* combination raises the failure alert.
C14_Classification ==
    [][ \A r \in Responses :
          ( \/ onSubmitResponse(r[1], r[2], r[3])
            \/ onSubmitResponseUnmounted(r[1], r[2], r[3]) )
          => /\ (alertShown' = AlertSuccess) <=> IsSuccess(r[1], r[2], r[3])
             /\ (alertShown' = AlertFailure) <=> ~IsSuccess(r[1], r[2], r[3])
      ]_vars

\* a response was classified as a failure: no request is pending any more and
\* the failure alert is up
C14_Witness ==
    /\ alertShown = AlertFailure
    /\ ~inflight /\ ~orphaned
    /\ mounted

\* C15 (as claimed): while the component is mounted the registry always shows
\* the stored state: every published flag and count equals the coordinator's
\* current value and every function key holds a callback; no state mixes keys
\* written by a mutation with keys that still show the state before it.
C15_AtomicSnapshot == mounted => window = Published

\* C16 (as claimed): a call made through a published handle acts on the
\* stored state at the time of the call: window.openTourModal opens the modal
\* exactly when the stored tour list is non-empty and raises its alert
\* otherwise, and the toggle handles flip the stored flag.
C16_HandlesResolveCurrent ==
    [][ /\ (mounted /\ viewTourScheduleClick) =>
             /\ showTourModal' = (showTourModal \/ Len(tourSelection) > 0)
             /\ (alertShown' = AlertSelectOne) <=> (Len(tourSelection) = 0)
        /\ (mounted /\ selectToursClick) => tourMode' = ~tourMode
        /\ (mounted /\ compareToggleClick) => compareMode' = ~compareMode
      ]_vars

\* C17: once the component is unmounted all eight registry keys are
\* undefined, and they stay so whatever happens afterwards (a response to a
\* request posted before the unmount, clicks on the widget's buttons).
C17_DisposalClears == ~mounted => window.undefined = RegistryKeys

\* the response to a request posted before the unmount was handled after it
C17_Witness ==
    /\ ~mounted /\ ~orphaned
    /\ alertShown \in {AlertSuccess, AlertFailure}
    /\ window.undefined = RegistryKeys

\* C18: a click on a button of the widget after the unmount calls nothing:
\* no TypeError, no alert, no request, and the component state and the
\* registry are what they were.
C18_StaleRegistryHarmless ==
    [][ ( /\ ~mounted
          /\ \/ selectToursClick
             \/ viewTourScheduleClick
             \/ compareToggleClick
             \/ viewComparisonClick )
        => /\ UNCHANGED <<coordVars, detailVars, closure, window, batch,
                          inflight, mounted, orphaned>>
           /\ ~fault'
           /\ alertShown' = NoAlert
           /\ request' = NoRequest ]_vars

\* the component is gone, every function key is undefined and nothing has
\* faulted: the state the widget's buttons are clicked in
C18_Witness ==
    /\ ~mounted
    /\ ~present("toggleTourMode") /\ ~present("openTourModal")
    /\ ~present("toggleCompareMode") /\ ~present("openComparisonModal")
    /\ ~fault
    /\ alertShown = NoAlert

\* C19: a click handled in the tour branch changes the stored tour list as
\* the add or remove it issues does when applied to the stored list: the
\* other daycares stay, in their order, also when the callbacks captured an
\* older list; an add of an absent daycare with room left appends it (two
\* adds of distinct daycares before a re-render keep both); a remove takes
\* out the clicked daycare only.  (The tour branch is taken only with the
\* captured tourMode set, and every handler call counts in `batch`.)
C19_NoLostUpdate ==
    [][ (closure.tourMode /\ batch' = batch + 1) =>
        \A daycare \in catalog :
          ( \E fromComparison \in BOOLEAN :
               /\ ~(closure.compareMode /\ ~fromComparison)
               /\ handleDaycareSelect(daycare, fromComparison) )
          => /\ filter(tourSelection', daycare) = filter(tourSelection, daycare)
             /\ ( /\ daycare \notin Range(closure.tourSelection)
                  /\ Len(closure.tourSelection) < MaxTourSelection
                  /\ daycare \notin Range(tourSelection)
                  /\ Len(tourSelection) < MaxTourSelection )
                => tourSelection' = Append(tourSelection, daycare)
             /\ daycare \in Range(closure.tourSelection)
                => daycare \notin Range(tourSelection')
      ]_vars

\* two clicks on distinct daycares since the last render, which showed an
\* empty list, left both selected
C19_Witness ==
    /\ batch = 2
    /\ closure.tourMode /\ tourMode
    /\ closure.tourSelection = <<>>
    /\ Len(tourSelection) = 2
    /\ alertShown = NoAlert

\* C20 (as claimed): a click on a daycare while neither mode is active leaves
\* both lists, both mode flags and both modal flags as they are.
C20_InactiveNoOp ==
    [][ \A daycare \in catalog, fromComparison \in BOOLEAN :
          ( /\ handleDaycareSelect(daycare, fromComparison)
            /\ ~tourMode /\ ~compareMode )
          => UNCHANGED <<tourSelection, daycareComparison, tourMode,
                         compareMode, showTourModal, showComparisonModal>>
      ]_vars

\* the notification element with the given id is in the document
displayed(i) == \E k \in 1..Len(notifications) : notifications[k].id = i

\* C25: every notification element put into the document is removed again
\* by its timer, whatever the page does meanwhile (toggles, further clicks,
\* unmount).
C25_EventuallyDismissed ==
    \A i \in 1..(MaxNotes + 1) : displayed(i) ~> ~displayed(i)

\* a notification is still in the document after the page was unmounted
C25_Witness ==
    /\ ~mounted
    /\ notifications # <<>>

\* this step put a notification of the given kind for the daycare on screen
Emitted(kind, daycare) ==
    /\ Len(notifications') = Len(notifications) + 1
    /\ notifications'[Len(notifications')].kind = kind
    /\ notifications'[Len(notifications')].daycare = daycare

\* C21: for a click handled in tour mode, "Added" is notified exactly when
\* the daycare was appended to the tour list, "Removed" exactly when it was
\* taken out, and an add rejected at capacity raises the maximum alert and
\* notifies no "Added".
C21_AcksMatchOutcomes ==
    [][\A daycare \in catalog :
          (tourMode /\ closure.tourMode
             /\ handleDaycareSelect_fixTourHandler(daycare, FALSE))
          => /\ Emitted("Added", daycare)
                  <=> tourSelection' = Append(tourSelection, daycare)
             /\ Emitted("Removed", daycare)
                  <=> (/\ some(tourSelection, daycare)
                       /\ tourSelection' = filter(tourSelection, daycare))
             /\ (~some(tourSelection, daycare)
                   /\ Len(tourSelection) >= MaxTourSelection)
                  => (alertShown' = AlertMaxAdd
                        /\ ~Emitted("Added", daycare))]_vars

\* C22: a remove of a daycare that is not in the stored tour list (from the
\* modal or from a click, also before the re-render after earlier changes)
\* leaves the list and all other state of the page as they are and raises
\* no fault.
C22_LookupMiss ==
    [][\A daycare \in catalog :
          (/\ ~some(tourSelection, daycare)
           /\ some(closure.tourSelection, daycare)
           /\ \/ onRemove(daycare)
              \/ (closure.tourMode /\ ~closure.compareMode
                    /\ handleDaycareSelect(daycare, FALSE)))
          => /\ tourSelection' = tourSelection
             /\ ~fault'
             /\ alertShown' = NoAlert
             /\ UNCHANGED <<coordVars, detailVars, lifeVars>>]_vars

\* the modal still lists a daycare that has left the stored, non-empty list
C22_Witness ==
    /\ mounted
    /\ closure.showTourModal
    /\ batch < MaxBatch
    /\ tourSelection # <<>>
    /\ \E daycare \in catalog :
          some(closure.tourSelection, daycare) /\ ~some(tourSelection, daycare)

\* position of the daycare in a list that holds it
IndexOf(list, daycare) == CHOOSE i \in 1..Len(list) : list[i] = daycare

\* new is old with the daycare behind the unchanged old entries
Grown(old, new, daycare) ==
    /\ Len(new) = Len(old) + 1
    /\ new[Len(new)] = daycare
    /\ \A i \in 1..Len(old) : new[i] = old[i]

\* new is old without the daycare and nothing else, the rest in its order
Shrunk(old, new, daycare) ==
    /\ Len(new) = Len(old) - 1
    /\ ~some(new, daycare)
    /\ \A i \in 1..Len(new) :
          new[i] = IF i < IndexOf(old, daycare) THEN old[i] ELSE old[i + 1]

\* C23: a click in tour mode that adds puts the daycare at the end and keeps
\* the entries before it in place; one that removes takes out exactly that
\* daycare and keeps the order of the rest; an add of a daycare already in
\* the stored list changes nothing.
C23_InsertionOrder ==
    (mounted /\ closure.tourMode /\ ~closure.compareMode) =>
        \A daycare \in catalog :
            LET captured == closure.tourSelection
                clicked == tourSelectionAfterClick(captured, tourSelection,
                                                   daycare)
            IN
            /\ (~some(captured, daycare) /\ ~some(tourSelection, daycare)
                  /\ Len(captured) < MaxTourSelection
                  /\ Len(tourSelection) < MaxTourSelection)
                 => Grown(tourSelection, clicked, daycare)
            /\ (some(captured, daycare) /\ some(tourSelection, daycare))
                 => Shrunk(tourSelection, clicked, daycare)
            /\ (~some(captured, daycare) /\ some(tourSelection, daycare))
                 => clicked = tourSelection
            /\ clicked # tourSelection
                 => \/ Grown(tourSelection, clicked, daycare)
                    \/ Shrunk(tourSelection, clicked, daycare)

\* a list whose order is the order of insertion, not of the ids, with a
\* daycare added since the last render (a further click on it is a
\* duplicate add)
C23_Witness ==
    /\ Len(tourSelection) >= 3
    /\ tourSelection[1] > tourSelection[2]
    /\ batch < MaxBatch
    /\ closure.tourMode
    /\ \E daycare \in catalog :
          some(tourSelection, daycare)
             /\ ~some(closure.tourSelection, daycare)

\* C24: a request goes out only in the step in which onSubmit is invoked,
\* and only one; handling a response (success or failure) posts nothing, so
\* the requests sent never outnumber the submits.
C24_NoAutomaticRetry ==
    [][/\ request' # NoRequest
          => (/\ Len(request') = 1
              /\ ~inflight /\ inflight'
              /\ \E formData \in FormData : onSubmit(formData))
       /\ (inflight /\ alertShown' = AlertFailure)
          => (request' = NoRequest /\ ~inflight')]_vars

\* a failure was reported for a posted request, nothing is in flight and the
\* modal is still open for the user to submit again
C24_Witness ==
    /\ alertShown = AlertFailure
    /\ ~inflight
    /\ request = NoRequest
    /\ showTourModal /\ closure.showTourModal
    /\ mounted

\* C26: the posted body lists the daycares of the tour list as it is when
\* the form is submitted, one entry each, in the list's order and under
\* their own operation_id, and carries childrenAges and availableDays as the
\* arrays the user entered, not as strings.
C26_PayloadContent ==
    [][\A formData \in FormData :
          onSubmit(formData)
          => /\ Len(request') = 1
             /\ Len(request'[1].selectedDaycares) = Len(tourSelection)
             /\ \A i \in 1..Len(tourSelection) :
                   request'[1].selectedDaycares[i].operation_id
                      = tourSelection[i]
             /\ request'[1].parentInfo.childrenAges = formData.childrenAges
             /\ request'[1].parentInfo.availableDays = formData.availableDays
             /\ ~request'[1].parentInfo.childrenAges.serialized
             /\ ~request'[1].parentInfo.availableDays.serialized]_vars

\* C27: whenever the tour modal is shown, tour mode is on and the tour list
\* holds at least one daycare, also after the last daycare was removed from
\* inside the modal and after a toggle with the modal open.
C27_ModalHasContent ==
    showTourModal => (tourMode /\ Len(tourSelection) > 0)

\* C28: a widget reading the registry never finds compare mode and tour
\* mode both on, also between a toggle's own write and the next effect.
C28_RegistryExclusive ==
    ~(present("daycarealertCompareMode") /\ present("daycarealertTourMode"))

\* C29: handling the response to a tour request, success or failure, leaves
\* compare mode, the comparison list and the comparison modal as they are,
\* also when the user went over to compare mode while it was in flight.
C29_ResponseLeavesCompare ==
    [][(inflight /\ ~inflight'
          /\ \E r \in Responses : onSubmitResponse(r[1], r[2], r[3]))
       => UNCHANGED <<compareMode, daycareComparison,
                      showComparisonModal>>]_vars

\* a success was handled with compare mode on and a daycare in the
\* comparison list
C29_Witness ==
    /\ alertShown = AlertSuccess
    /\ ~inflight
    /\ compareMode
    /\ Len(daycareComparison) > 0

\* the page source holds no tour code, its handleDaycareSelect begins with
\* the compare test and every place the script inserts at is there
Clean(page) == page = Anchors

\* C30: one run of restore_tour_mode.py on a page source without tour code
\* leaves the import, the tour state, the tour functions, the window-globals
\* effect, the tour UI and the tour branch of handleDaycareSelect in it, and
\* a second run on that output changes nothing.
C30_RestoresInOneRun ==
    /\ (pc = LastStep /\ Clean(original)) => Inserts \subseteq content
    /\ pc = 2 * LastStep => content = original
====
